---- MODULE Spec2Model ----
(***************************************************************************)
(* A model of coldatoms/particles.py: the Ensemble container (positions,   *)
(* velocities, property maps, resize), the injection driver produce_ptcls, *)
(* the plane sink's absorption time and the drift-kick-drift integrator.   *)
(*                                                                         *)
(* float64 values are modelled as exact rationals <<numerator,             *)
(* denominator>> in lowest terms with a positive denominator.  A numpy     *)
(* array is a record [shape, data] with data the elements in C order.      *)
(* Python indices are 0-based; sequence positions here are 1-based, so row *)
(* r of the program is row r + 1 of the model.                             *)
(***************************************************************************)
EXTENDS Integers, Sequences, FiniteSets, TLC

VARIABLES
    x,                    \* Ensemble.x, array of shape (N, 3)
    v,                    \* Ensemble.v, array of shape (N, 3)
    ensemble_properties,  \* Ensemble.ensemble_properties: key -> scalar
    particle_properties,  \* Ensemble.particle_properties: key -> array
    pc,                   \* position inside produce_ptcls, or "idle"
    sources,              \* produce_ptcls: the list of sources
    dt,                   \* the dt argument of the running/last operation
    i,                    \* produce_ptcls: loop index (1-based)
    num_new_ptcls,        \* produce_ptcls: the cached per-source counts
    tot_new_ptcls,        \* produce_ptcls: the running total
    start,                \* produce_ptcls: the insertion cursor
    old_num_ptcls,        \* produce_ptcls: ensemble.num_ptcls at the call
    log,                  \* calls made by the running/last produce_ptcls
    last,                 \* the last operation started: [op, arg]
    err,                  \* how the last operation ended
    sink,                 \* the SinkPlane: [point, normal]
    taus,                 \* result of the last find_absorption_time
    forces                \* the forces argument of drift_kick

vars == <<x, v, ensemble_properties, particle_properties, pc, sources, dt, i,
          num_new_ptcls, tot_new_ptcls, start, old_num_ptcls, log, last, err,
          sink, taus, forces>>

ensembleVars == <<x, v, ensemble_properties, particle_properties>>
frameVars == <<pc, sources, dt, i, num_new_ptcls, tot_new_ptcls, start,
               old_num_ptcls, log>>
sinkVars == <<sink, taus>>

(***************************************************************************)
(* Bounds of the model.                                                    *)
(***************************************************************************)
MaxN == 3          \* largest particle count of the container model
MaxSources == 2    \* longest source list
MaxCount == 2      \* largest count one source returns
MaxSinkPtcls == 2  \* particles handed to find_absorption_time
MaxKickPtcls == 3  \* particles of an ensemble handed to drift_kick

\* The second dimension of positions and velocities.
Dim == 3

(***************************************************************************)
(* Exact rational arithmetic.                                              *)
(***************************************************************************)
Abs(n) == IF n < 0 THEN -n ELSE n

RECURSIVE Gcd(_, _)
Gcd(a, b) == IF b = 0 THEN a ELSE Gcd(b, a % b)

Norm(n, d) ==
    LET g == Gcd(Abs(n), Abs(d))
        s == IF d < 0 THEN -1 ELSE 1
    IN <<(s * n) \div g, (s * d) \div g>>

R(n) == <<n, 1>>
Zero == R(0)
RAdd(a, b) == Norm(a[1] * b[2] + b[1] * a[2], a[2] * b[2])
RSub(a, b) == Norm(a[1] * b[2] - b[1] * a[2], a[2] * b[2])
RMul(a, b) == Norm(a[1] * b[1], a[2] * b[2])
RDiv(a, b) == Norm(a[1] * b[2], a[2] * b[1])
RLess(a, b) == a[1] * b[2] < b[1] * a[2]
Half == Norm(1, 2)

\* 3-vectors
Vec(a, b, c) == <<R(a), R(b), R(c)>>
VAdd(a, b) == [k \in 1..Dim |-> RAdd(a[k], b[k])]
VSub(a, b) == [k \in 1..Dim |-> RSub(a[k], b[k])]
VScale(r, a) == [k \in 1..Dim |-> RMul(r, a[k])]
Dot(a, b) == RAdd(RAdd(RMul(a[1], b[1]), RMul(a[2], b[2])), RMul(a[3], b[3]))

(***************************************************************************)
(* numpy arrays.                                                           *)
(***************************************************************************)
RECURSIVE Prod(_)
Prod(shape) == IF shape = <<>> THEN 1 ELSE Head(shape) * Prod(Tail(shape))

\* np.zeros(shape)
Zeros(shape) == [shape |-> shape, data |-> [k \in 1..Prod(shape) |-> Zero]]

\* ndarray.resize(new_shape), in place: the elements are kept in memory
\* order, cut or padded with zeros to the new element count.
NpResize(a, new_shape) ==
    [shape |-> new_shape,
     data |-> [k \in 1..Prod(new_shape) |->
                  IF k <= Len(a.data) THEN a.data[k] ELSE Zero]]

\* a.shape[0]
Leading(a) == a.shape[1]

\* number of elements of one entry a[r]
Width(a) == Prod(Tail(a.shape))

\* a[r] in C order, r 1-based, as the sequence of its elements
Row(a, r) == [k \in 1..Width(a) |-> a.data[(r - 1) * Width(a) + k]]

(***************************************************************************)
(* Ensemble.                                                               *)
(***************************************************************************)
\* Ensemble.num_ptcls
num_ptcls == Leading(x)

\* The shape Ensemble.resize gives positions and velocities.
ResizeShape(a, new_size) == [a.shape EXCEPT ![1] = new_size]

\* The shape Ensemble.resize gives a particle property: the list built is
\* [prop.shape], one element long, whose element 0 is then overwritten.
PropResizeShapeKeep(a, new_size) == a.shape
PropResizeShape(a, new_size) == [<<a.shape>> EXCEPT ![1] = new_size]

ResizedProps(props, new_size) ==
    [key \in DOMAIN props |->
        NpResize(props[key], PropResizeShape(props[key], new_size))]

\* The whole of Ensemble.resize, as the new <<x, v, particle_properties>>.
Resized(new_size) ==
    <<NpResize(x, ResizeShape(x, new_size)),
      NpResize(v, ResizeShape(x, new_size)),
      ResizedProps(particle_properties, new_size)>>

NoFrame ==
    /\ pc = "idle"
    /\ UNCHANGED <<frameVars, sinkVars, forces>>

PropKeys == {"mass", "charge"}

\* An array with distinct nonzero entries 1, 2, 3, ... in C order.
Iota(shape) == [shape |-> shape, data |-> [k \in 1..Prod(shape) |-> R(k)]]

\* Arrays a caller hands to set_particle_property: 0-d, (n,) and (n, 3).
PropInputs ==
    {Iota(<<>>)}
    \cup {Iota(<<n>>) : n \in 0..MaxN}
    \cup {Iota(<<n, Dim>>) : n \in 0..MaxN}

set_particle_property(key, prop) ==
    /\ NoFrame
    /\ last' = [op |-> "set_particle_property", arg |-> Len(prop.shape)]
    /\ IF prop.shape = <<>>
       THEN \* prop.shape[0] of a 0-d array
            /\ err' = "IndexError"
            /\ UNCHANGED ensembleVars
       ELSE IF Leading(prop) # num_ptcls
       THEN /\ err' = "RuntimeError"
            /\ UNCHANGED ensembleVars
       ELSE /\ err' = "none"
            /\ particle_properties' =
                 [key2 \in DOMAIN particle_properties \cup {key} |->
                     IF key2 = key THEN prop ELSE particle_properties[key2]]
            /\ UNCHANGED <<x, v, ensemble_properties>>

resize(new_size) ==
    /\ NoFrame
    /\ last' = [op |-> "resize", arg |-> new_size]
    /\ err' = "none"
    /\ x' = Resized(new_size)[1]
    /\ v' = Resized(new_size)[2]
    /\ particle_properties' = Resized(new_size)[3]
    /\ UNCHANGED ensemble_properties

(***************************************************************************)
(* Sources and the injection driver produce_ptcls.                         *)
(***************************************************************************)
\* The kinds of source in a list: the base class Source, and a subclass that
\* emits particles (a stochastic source in the words of the docstring).
SourceKinds == {"Source", "Emitter"}

DtVals == {R(1), R(10)}

\* The particles an emitter inserts: <<position, velocity>>.
ParticleKinds ==
    {<<Vec(1, 0, 0), Vec(0, 1, 0)>>, <<Vec(0, 2, 1), Vec(1, 0, 0)>>}

\* What s.num_ptcls_produced(dt) may return: 0 for the base class; any
\* count, possibly another one on each call, for an emitter.
NumPtclsProduced(kind) == IF kind = "Source" THEN {0} ELSE 0..MaxCount

Event(call, src, d, ret, st, en) ==
    [call |-> call, src |-> src, dt |-> d, ret |-> ret, start |-> st,
     end |-> en]

\* The calls one pass of the first loop makes on source number src.
QueryCalls(src, d, ret) == <<Event("num_ptcls_produced", src, d, ret, 0, 0)>>

\* The calls one pass of the second loop makes on source number src.
ProduceCallsRequery(src, d, st, cnt) ==
    <<Event("num_ptcls_produced", src, d, cnt, 0, 0),
      Event("produce_ptcls", src, d, 0, st, st + cnt)>>
ProduceCalls(src, d, st, cnt) ==
    <<Event("produce_ptcls", src, d, 0, st, st + cnt)>>

\* start += num_new_ptcls[i]
NextStartStuck(st, cnt) == st
NextStart(st, cnt) == st + cnt

\* Rows st .. en - 1 (0-based) of a overwritten by rows[r].
WriteRows(a, st, en, rows) ==
    [a EXCEPT !.data = [k \in 1..Len(a.data) |->
        LET r == ((k - 1) \div Dim) + 1
        IN IF st < r /\ r <= en THEN rows[r][((k - 1) % Dim) + 1]
           ELSE a.data[k]]]

produce_ptcls_call(d, srcs) ==
    /\ pc = "idle"
    /\ pc' = "query"
    /\ sources' = srcs
    /\ dt' = d
    /\ i' = 1
    /\ num_new_ptcls' = <<>>
    /\ tot_new_ptcls' = 0
    /\ log' = <<>>
    /\ old_num_ptcls' = num_ptcls
    /\ last' = [op |-> "produce_ptcls", arg |-> Len(srcs)]
    /\ err' = "none"
    /\ UNCHANGED <<ensembleVars, start, sinkVars, forces>>

\* One pass of the loop of lines 94-96.
produce_ptcls_query ==
    /\ pc = "query"
    /\ i <= Len(sources)
    /\ \E c \in NumPtclsProduced(sources[i]) :
          /\ num_ptcls + tot_new_ptcls + c <= MaxN
          /\ num_new_ptcls' = Append(num_new_ptcls, c)
          /\ tot_new_ptcls' = tot_new_ptcls + c
          /\ log' = log \o QueryCalls(i, dt, c)
    /\ i' = i + 1
    /\ UNCHANGED <<ensembleVars, pc, sources, dt, start, old_num_ptcls, last,
                   err, sinkVars, forces>>

\* Lines 98-99.
produce_ptcls_resize ==
    /\ pc = "query"
    /\ i > Len(sources)
    /\ start' = num_ptcls
    /\ x' = Resized(num_ptcls + tot_new_ptcls)[1]
    /\ v' = Resized(num_ptcls + tot_new_ptcls)[2]
    /\ particle_properties' = Resized(num_ptcls + tot_new_ptcls)[3]
    /\ log' = Append(log, Event("resize", 0, dt, 0, 0,
                                num_ptcls + tot_new_ptcls))
    /\ pc' = "produce"
    /\ i' = 1
    /\ UNCHANGED <<ensemble_properties, sources, dt, num_new_ptcls,
                   tot_new_ptcls, old_num_ptcls, last, err, sinkVars, forces>>

\* One pass of the loop of lines 100-102.  The base class's produce_ptcls
\* does nothing; an emitter writes the rows start .. end - 1 it was given.
produce_ptcls_produce ==
    /\ pc = "produce"
    /\ i <= Len(sources)
    /\ log' = log \o ProduceCalls(i, dt, start, num_new_ptcls[i])
    /\ IF sources[i] = "Source"
       THEN UNCHANGED <<x, v>>
       ELSE LET en == IF start + num_new_ptcls[i] <= num_ptcls
                      THEN start + num_new_ptcls[i] ELSE num_ptcls
            IN \E rows \in [(start + 1)..en -> ParticleKinds] :
                 /\ x' = WriteRows(x, start, en,
                                   [r \in DOMAIN rows |-> rows[r][1]])
                 /\ v' = WriteRows(v, start, en,
                                   [r \in DOMAIN rows |-> rows[r][2]])
    /\ start' = NextStart(start, num_new_ptcls[i])
    /\ i' = i + 1
    /\ UNCHANGED <<ensemble_properties, particle_properties, pc, sources, dt,
                   num_new_ptcls, tot_new_ptcls, old_num_ptcls, last, err,
                   sinkVars, forces>>

\* The driver has made all its calls.
ProduceDone == pc = "produce" /\ i > Len(sources)

\* The frame of an operation that is not running.
NoLocals ==
    /\ pc = "idle"
    /\ sources = <<>>
    /\ dt = Zero
    /\ i = 1
    /\ num_new_ptcls = <<>>
    /\ tot_new_ptcls = 0
    /\ start = 0
    /\ old_num_ptcls = 0
    /\ log = <<>>

\* produce_ptcls returns; its locals are gone.
produce_ptcls_return ==
    /\ ProduceDone
    /\ pc' = "idle"
    /\ sources' = <<>>
    /\ dt' = Zero
    /\ i' = 1
    /\ num_new_ptcls' = <<>>
    /\ tot_new_ptcls' = 0
    /\ start' = 0
    /\ old_num_ptcls' = 0
    /\ log' = <<>>
    /\ UNCHANGED <<ensembleVars, last, err, sinkVars, forces>>

SourceLists == UNION {[1..n -> SourceKinds] : n \in 0..MaxSources}

\* Ensemble(num_ptcls), before any other operation.
Init ==
    /\ \E n \in 0..1 :
          /\ x = Zeros(<<n, Dim>>)
          /\ v = Zeros(<<n, Dim>>)
    /\ ensemble_properties = <<>>
    /\ particle_properties = <<>>
    /\ NoLocals
    /\ last = [op |-> "__init__", arg |-> 0]
    /\ err = "none"
    /\ sink = <<>>
    /\ taus = <<>>
    /\ forces = <<>>

Next ==
    \/ \E key \in PropKeys, prop \in PropInputs :
          set_particle_property(key, prop)
    \/ \E new_size \in 0..MaxN : resize(new_size)
    \/ \E d \in DtVals, srcs \in SourceLists : produce_ptcls_call(d, srcs)
    \/ produce_ptcls_query
    \/ produce_ptcls_resize
    \/ produce_ptcls_produce
    \/ produce_ptcls_return

Spec == Init /\ [][Next]_vars

(***************************************************************************)
(* Sink and SinkPlane.                                                     *)
(***************************************************************************)
\* An (n, 3) array from its rows.
FromRows(rows) ==
    [shape |-> <<Len(rows), Dim>>,
     data |-> [k \in 1..(Len(rows) * Dim) |->
                  rows[((k - 1) \div Dim) + 1][((k - 1) % Dim) + 1]]]

Sign(n) == IF n > 0 THEN 1 ELSE IF n < 0 THEN -1 ELSE 0

\* A rational, as opposed to the inf, -inf and nan of float64, written
\* <<1, 0>>, <<-1, 0>> and <<0, 0>>.
Finite(a) == a[2] # 0

\* a / b in float64: dividing by zero gives inf, -inf or nan.
FDiv(a, b) == IF b[1] = 0 THEN <<Sign(a[1]), 0>> ELSE RDiv(a, b)

\* One pass of the loop of SinkPlane.find_absorption_time.
PlaneTauUnguarded(point, normal, xi, vi, d) ==
    FDiv(Dot(normal, VSub(point, xi)), Dot(normal, vi))
PlaneTau(point, normal, xi, vi, d) ==
    LET normal_velocity == Dot(normal, vi)
    IN IF normal_velocity = Zero
       THEN RMul(R(2), d)
       ELSE FDiv(Dot(normal, VSub(point, xi)), normal_velocity)

\* SinkPlane.find_absorption_time(x, v, dt)
PlaneTaus(plane, pos, vel, d) ==
    [r \in 1..Leading(pos) |->
        PlaneTau(plane.point, plane.normal, Row(pos, r), Row(vel, r), d)]

find_absorption_time(d) ==
    /\ pc = "idle"
    /\ dt' = d
    /\ taus' = PlaneTaus(sink, x, v, d)
    /\ last' = [op |-> "find_absorption_time", arg |-> 0]
    /\ err' = "none"
    /\ UNCHANGED <<ensembleVars, pc, sources, i, num_new_ptcls, tot_new_ptcls,
                   start, old_num_ptcls, log, sink, forces>>

SinkPoints == {Vec(1, 0, 0), Vec(0, 2, 0)}
SinkNormals == {Vec(1, 0, 0), Vec(0, 2, 0), Vec(1, 1, 0)}
SinkPositions == {Vec(0, 0, 0), Vec(2, 0, 0), Vec(0, 1, 0), Vec(-1, 1, 0)}
SinkVelocities ==
    {Vec(0, 0, 0), Vec(1, 0, 0), Vec(0, 1, 0), Vec(-1, 0, 0), Vec(2, 2, 0)}

\* A plane sink and the positions and velocities of 1 .. MaxSinkPtcls
\* particles.
InitSink ==
    /\ \E n \in 1..MaxSinkPtcls :
          \E xs \in [1..n -> SinkPositions], vs \in [1..n -> SinkVelocities] :
             /\ x = FromRows(xs)
             /\ v = FromRows(vs)
    /\ \E point \in SinkPoints, normal \in SinkNormals :
          sink = [point |-> point, normal |-> normal]
    /\ ensemble_properties = <<>>
    /\ particle_properties = <<>>
    /\ NoLocals
    /\ last = [op |-> "__init__", arg |-> 0]
    /\ err = "none"
    /\ taus = <<>>
    /\ forces = <<>>

NextSink == \E d \in DtVals : find_absorption_time(d)

SpecSink == InitSink /\ [][NextSink]_vars

(***************************************************************************)
(* drift_kick.                                                             *)
(***************************************************************************)
MaxForces == 2     \* longest list of forces

\* a += c * b for (n, 3) arrays a and b and a scalar c
AddScaled(a, c, b) ==
    [a EXCEPT !.data = [k \in 1..Len(a.data) |->
        RAdd(a.data[k], RMul(c, b.data[k]))]]

\* ensemble.x += 0.5 * dt * ensemble.v
HalfDriftWhole(pos, vel, d) == AddScaled(pos, d, vel)
HalfDrift(pos, vel, d) == AddScaled(pos, RMul(Half, d), vel)

\* A force is a callable evaluated on the ensemble as it is when called:
\* here the same vector F for every particle ("uniform"), or the harmonic
\* force -x_i on particle i ("spring").
ForceOn(force, pos, vel, r) ==
    IF force.kind = "uniform" THEN force.F
    ELSE VScale(R(-1), Row(pos, r))

\* f = np.zeros_like(v); for force in forces: f += force(ensemble).
\* Row r of f after the first n forces of the list.
RECURSIVE ForceSum(_, _, _, _, _)
ForceSum(fs, n, pos, vel, r) ==
    IF n = 0 THEN [k \in 1..Dim |-> Zero]
    ELSE VAdd(ForceSum(fs, n - 1, pos, vel, r), ForceOn(fs[n], pos, vel, r))

TotalForce(fs, pos, vel) ==
    FromRows([r \in 1..Leading(pos) |-> ForceSum(fs, Len(fs), pos, vel, r)])

\* Lines 167-173: where the mass comes from.
ResolveMassParticleFirst(eprops, pprops) ==
    IF "mass" \in DOMAIN pprops THEN "particle"
    ELSE IF "mass" \in DOMAIN eprops THEN "ensemble"
    ELSE "missing"
ResolveMass(eprops, pprops) ==
    IF "mass" \in DOMAIN eprops THEN "ensemble"
    ELSE IF "mass" \in DOMAIN pprops THEN "particle"
    ELSE "missing"

\* dt / m for a scalar m
KickScaleTimes(d, m) == RMul(d, m)
KickScale(d, m) == RDiv(d, m)

\* Whether an array of shape mshape broadcasts against the (n, 3) array f
\* to a result that can be added to v in place, by numpy's rule: shapes are
\* aligned at their last axis, and two lengths match when they are equal or
\* one of them is 1.
Broadcasts(mshape, n) ==
    \/ mshape = <<>>
    \/ Len(mshape) = 1 /\ mshape[1] \in {1, Dim}
    \/ Len(mshape) = 2 /\ mshape[1] \in {1, n} /\ mshape[2] \in {1, Dim}

\* The element of m that meets f[r][k] (1-based) under that rule.
BroadcastElem(m, r, k) ==
    IF Len(m.shape) = 0 THEN m.data[1]
    ELSE IF Len(m.shape) = 1
         THEN m.data[IF m.shape[1] = 1 THEN 1 ELSE k]
    ELSE m.data[(IF m.shape[1] = 1 THEN 0 ELSE (r - 1) * m.shape[2])
                + (IF m.shape[2] = 1 THEN 1 ELSE k)]

\* ensemble.v += (dt / m) * f for an array m that broadcasts
KickByArray(vel, d, m, f) ==
    [vel EXCEPT !.data = [j \in 1..Len(vel.data) |->
        LET r == ((j - 1) \div Dim) + 1
            k == ((j - 1) % Dim) + 1
        IN RAdd(vel.data[j],
                RMul(RDiv(d, BroadcastElem(m, r, k)), f.data[j]))]]

\* The state drift_kick leaves: <<x, v, how it ended>>.
DriftKicked(d, fs) ==
    IF Len(fs) = 0
    THEN <<AddScaled(x, d, v), v, "none">>
    ELSE LET x1 == HalfDrift(x, v, d)
             f == TotalForce(fs, x1, v)
             from == ResolveMass(ensemble_properties, particle_properties)
         IN IF from = "missing" THEN <<x1, v, "RuntimeError">>
            ELSE IF from = "ensemble"
            THEN LET v1 == AddScaled(v, KickScale(d,
                                ensemble_properties["mass"]), f)
                 IN <<HalfDrift(x1, v1, d), v1, "none">>
            ELSE IF ~Broadcasts(particle_properties["mass"].shape,
                                Leading(v))
            THEN <<x1, v, "ValueError">>
            ELSE LET v1 == KickByArray(v, d, particle_properties["mass"], f)
                 IN <<HalfDrift(x1, v1, d), v1, "none">>

\* One step is taken from each initial ensemble.
drift_kick(d, fs) ==
    /\ pc = "idle"
    /\ last.op = "__init__"
    /\ dt' = d
    /\ forces' = fs
    /\ LET after == DriftKicked(d, fs)
       IN /\ x' = after[1]
          /\ v' = after[2]
          /\ err' = after[3]
    /\ last' = [op |-> "drift_kick", arg |-> Len(fs)]
    /\ UNCHANGED <<ensemble_properties, particle_properties, pc, sources, i,
                   num_new_ptcls, tot_new_ptcls, start, old_num_ptcls, log,
                   sinkVars>>

\* <<position, velocity>> of the particles of an ensemble to be stepped.
KickParticles ==
    {<<Vec(0, 0, 0), Vec(1, 0, 0)>>, <<Vec(1, 2, 0), Vec(0, -1, 2)>>}

EnsembleMasses == {R(2), R(4)}
ParticleMasses == {R(1), R(5)}

Forces ==
    {[kind |-> "uniform", F |-> Vec(2, -4, 0)],
     [kind |-> "spring", F |-> Vec(0, 0, 0)]}

ForceLists == UNION {[1..n -> Forces] : n \in 0..MaxForces}

\* Per-particle mass arrays of an n-particle ensemble: shape (n,) with any
\* masses, and shape (n, 1).
MassArrays(n) ==
    {[shape |-> <<n>>, data |-> ms] : ms \in [1..n -> ParticleMasses]}
    \cup {[shape |-> <<n, 1>>, data |-> [r \in 1..n |-> R(r)]]}

\* An ensemble of 1 .. MaxKickPtcls particles whose positions, velocities
\* and masses have been set.
InitKick ==
    /\ \E n \in 1..MaxKickPtcls :
          /\ \E ps \in [1..n -> KickParticles] :
                /\ x = FromRows([r \in 1..n |-> ps[r][1]])
                /\ v = FromRows([r \in 1..n |-> ps[r][2]])
          /\ \/ particle_properties = <<>>
             \/ \E m \in MassArrays(n) :
                   particle_properties = [key \in {"mass"} |-> m]
    /\ \/ ensemble_properties = <<>>
       \/ \E m \in EnsembleMasses :
             ensemble_properties = [key \in {"mass"} |-> m]
    /\ NoLocals
    /\ last = [op |-> "__init__", arg |-> 0]
    /\ err = "none"
    /\ sink = <<>>
    /\ taus = <<>>
    /\ forces = <<>>

NextKick == \E d \in DtVals, fs \in ForceLists : drift_kick(d, fs)

SpecKick == InitKick /\ [][NextKick]_vars

(***************************************************************************)
(* Properties of the container and the injection driver.                   *)
(***************************************************************************)
Min(a, b) == IF a < b THEN a ELSE b

IsQuery(e) == e.call = "num_ptcls_produced"
IsResize(e) == e.call = "resize"
IsProduce(e) == e.call = "produce_ptcls"

RECURSIVE SumRet(_)
SumRet(events) ==
    IF events = <<>> THEN 0 ELSE Head(events).ret + SumRet(Tail(events))

\* C1: whenever an Ensemble operation has completed or failed, positions
\* and velocities have the same number of rows N, and every array stored in
\* particle_properties has leading length exactly N.
C1_LeadingLengthsAgree ==
    (pc = "idle" \/ ProduceDone) =>
        /\ Leading(v) = Leading(x)
        /\ \A key \in DOMAIN particle_properties :
              /\ particle_properties[key].shape # <<>>
              /\ Leading(particle_properties[key]) = num_ptcls

\* A resize to at least two particles has completed with both properties
\* stored.
C1_Witness ==
    /\ pc = "idle"
    /\ last.op = "resize"
    /\ num_ptcls >= 2
    /\ DOMAIN particle_properties = PropKeys

\* C2: resize(new_size) leaves the first min(N, new_size) rows of positions
\* and velocities unchanged, makes every added row all zeros, and keeps, for
\* every array in particle_properties, the per-particle shape and the values
\* of the first min(N, new_size) rows.
C2_ResizeKeepsRows ==
    [][(pc = "idle" /\ pc' = "idle" /\ last'.op = "resize") =>
        LET m == Min(num_ptcls, last'.arg)
        IN /\ Leading(x') = last'.arg
           /\ Leading(v') = last'.arg
           /\ \A r \in 1..m :
                 Row(x', r) = Row(x, r) /\ Row(v', r) = Row(v, r)
           /\ \A r \in (m + 1)..last'.arg :
                 /\ Row(x', r) = [k \in 1..Dim |-> Zero]
                 /\ Row(v', r) = [k \in 1..Dim |-> Zero]
           /\ \A key \in DOMAIN particle_properties :
                 /\ key \in DOMAIN particle_properties'
                 /\ \A r \in 1..m :
                       /\ Tail(particle_properties'[key].shape)
                            = Tail(particle_properties[key].shape)
                       /\ Row(particle_properties'[key], r)
                            = Row(particle_properties[key], r)
      ]_vars

\* C3: in one call of produce_ptcls, num_ptcls_produced(dt) is called
\* exactly once on each source in list order, then the ensemble is resized
\* exactly once to old_N + the sum of the returned counts, then
\* Source.produce_ptcls is called exactly once on each source in list order;
\* no num_ptcls_produced call happens after the resize.
C3_CallOrder ==
    /\ \A p, q \in 1..Len(log) :
          (p < q /\ IsResize(log[p])) => ~IsQuery(log[q])
    /\ ProduceDone =>
          LET n == Len(sources)
          IN /\ Len(log) = 2 * n + 1
             /\ \A k \in 1..n :
                   /\ IsQuery(log[k])
                   /\ log[k].src = k
                   /\ log[k].dt = dt
             /\ IsResize(log[n + 1])
             /\ log[n + 1].end = old_num_ptcls + SumRet(SubSeq(log, 1, n))
             /\ num_ptcls = log[n + 1].end
             /\ \A k \in 1..n :
                   /\ IsProduce(log[n + 1 + k])
                   /\ log[n + 1 + k].src = k
                   /\ log[n + 1 + k].dt = dt

\* A call with two sources that together produced at least two particles has
\* made all its calls.
C3_Witness ==
    /\ ProduceDone
    /\ Len(sources) = 2
    /\ tot_new_ptcls >= 2

\* C4: the (start, end) ranges passed to the sources are disjoint and
\* contiguous in list order: the first starts at old_N, each starts where
\* the previous one ended, the last ends at the new particle count, and each
\* end - start is the count that source returned from its one
\* num_ptcls_produced query.
C4_RangesContiguous ==
    ProduceDone =>
        LET produced == SelectSeq(log, IsProduce)
            queried == SelectSeq(log, IsQuery)
            n == Len(sources)
        IN /\ Len(produced) = n
           /\ Len(queried) = n
           /\ \A k \in 1..n :
                 /\ produced[k].src = k
                 /\ queried[k].src = k
                 /\ produced[k].end - produced[k].start = queried[k].ret
                 /\ produced[k].start =
                       IF k = 1 THEN old_num_ptcls ELSE produced[k - 1].end
           /\ n >= 1 => produced[n].end = num_ptcls

\* Two emitters were given the nonempty ranges [old_N, old_N + 1) and
\* [old_N + 1, old_N + 3).
C4_Witness ==
    /\ ProduceDone
    /\ Len(sources) = 2
    /\ num_new_ptcls = <<1, 2>>
    /\ log[4].start = old_num_ptcls /\ log[4].end = old_num_ptcls + 1
    /\ log[5].start = old_num_ptcls + 1 /\ log[5].end = old_num_ptcls + 3

(***************************************************************************)
(* Properties of the plane sink.                                           *)
(***************************************************************************)
\* The straight line from xi with velocity vi meets the plane at a time in
\* [0, d): with a = normal.(point - xi) and b = normal.vi, the time a / b
\* exists and 0 <= a / b < d.
CrossesWithin(plane, xi, vi, d) ==
    LET a == Dot(plane.normal, VSub(plane.point, xi))
        b == Dot(plane.normal, vi)
    IN \/ b[1] > 0 /\ a[1] >= 0 /\ RLess(a, RMul(d, b))
       \/ b[1] < 0 /\ a[1] <= 0 /\ RLess(RMul(d, b), a)

SinkCalled == last.op = "find_absorption_time"

\* C5: if a particle's straight-line trajectory does not cross the plane at
\* a time within [0, dt), the value SinkPlane.find_absorption_time returns
\* for that particle is strictly greater than dt.
C5_NoCrossingGivesMoreThanDt ==
    SinkCalled =>
        \A r \in 1..num_ptcls :
            ~CrossesWithin(sink, Row(x, r), Row(v, r), dt) =>
                /\ Finite(taus[r])
                /\ RLess(dt, taus[r])

KickStep == last.op = "__init__" /\ last'.op = "drift_kick"

HasEnsembleMass == "mass" \in DOMAIN ensemble_properties
HasParticleMass == "mass" \in DOMAIN particle_properties

\* x_r + c * v_r
Advanced(r, c) == VAdd(Row(x, r), VScale(c, Row(v, r)))

\* The total force on particle r, evaluated after the first half-drift.
ForceAtHalfDrift(r) ==
    ForceSum(forces', Len(forces'),
             FromRows([q \in 1..num_ptcls |-> Advanced(q, RMul(Half, dt'))]),
             v, r)

\* v_r + (dt / m) * F_r
KickedBy(r, m) ==
    VAdd(Row(v, r), VScale(RDiv(dt', m), ForceAtHalfDrift(r)))

\* C7: with at least one force, the mass used in the kick is
\* ensemble_properties['mass'] whenever that key is present, whether or not
\* particle_properties['mass'] exists too.
C7_EnsembleMassWins ==
    [][(KickStep /\ forces' # <<>> /\ HasEnsembleMass) =>
        /\ err' = "none"
        /\ \A r \in 1..num_ptcls :
              Row(v', r) = KickedBy(r, ensemble_properties["mass"])
      ]_vars

\* Ensemble mass 2 together with per-particle masses all 5, and a force that
\* changed the velocities.
C7_Witness ==
    /\ last.op = "drift_kick"
    /\ forces = <<[kind |-> "uniform", F |-> Vec(2, -4, 0)]>>
    /\ err = "none"
    /\ num_ptcls = 2
    /\ HasEnsembleMass /\ ensemble_properties["mass"] = R(2)
    /\ HasParticleMass
    /\ particle_properties["mass"] = [shape |-> <<2>>, data |-> <<R(5), R(5)>>]

\* C8: with at least one force and 'mass' in neither property map,
\* drift_kick fails with the missing-mass error, leaving the velocities
\* unchanged and the positions advanced by exactly one half-drift,
\* x + 0.5 * dt * v.
C8_MissingMassLeavesHalfDrift ==
    [][(KickStep /\ forces' # <<>> /\ ~HasEnsembleMass /\ ~HasParticleMass) =>
        /\ err' = "RuntimeError"
        /\ v' = v
        /\ Leading(x') = num_ptcls
        /\ \A r \in 1..num_ptcls :
              Row(x', r) = Advanced(r, RMul(Half, dt'))
      ]_vars

\* A step failed for want of a mass on an ensemble with a moving particle.
C8_Witness ==
    /\ last.op = "drift_kick"
    /\ err = "RuntimeError"
    /\ forces # <<>>
    /\ ~HasEnsembleMass /\ ~HasParticleMass
    /\ \E r \in 1..num_ptcls : Row(v, r) = <<R(0), R(-1), R(2)>>

\* C9: when the mass comes from particle_properties['mass'], an array m of
\* length N, the step completes without error for every N >= 1 and the kick
\* adds (dt / m_i) * F_i to velocity row i.
C9_PerParticleMassKick ==
    [][(KickStep /\ forces' # <<>> /\ ~HasEnsembleMass /\ HasParticleMass
        /\ particle_properties["mass"].shape = <<num_ptcls>>) =>
        /\ err' = "none"
        /\ \A r \in 1..num_ptcls :
              Row(v', r) = KickedBy(r, particle_properties["mass"].data[r])
      ]_vars

\* C10: one step with a single force returning the same vector F for every
\* particle and a scalar ensemble mass m ends with v' = v + (dt / m) * F and
\* x' = x + dt * v + 0.5 * (dt^2 / m) * F for every particle.
C10_ClosedForm ==
    [][(KickStep /\ Len(forces') = 1 /\ forces'[1].kind = "uniform"
        /\ HasEnsembleMass) =>
        LET m == ensemble_properties["mass"]
            F == forces'[1].F
        IN /\ err' = "none"
           /\ \A r \in 1..num_ptcls :
                 /\ Row(v', r) = VAdd(Row(v, r), VScale(RDiv(dt', m), F))
                 /\ Row(x', r) =
                       VAdd(Advanced(r, dt'),
                            VScale(RMul(Half, RDiv(RMul(dt', dt'), m)), F))
      ]_vars

\* A step of dt = 10 under one uniform force with ensemble mass 4 completed.
C10_Witness ==
    /\ last.op = "drift_kick"
    /\ err = "none"
    /\ dt = R(10)
    /\ forces = <<[kind |-> "uniform", F |-> Vec(2, -4, 0)]>>
    /\ HasEnsembleMass /\ ensemble_properties["mass"] = R(4)
    /\ num_ptcls = 3

====
